---- MODULE Spec2Model ----
(***************************************************************************)
(* A model of makefile_ci_patch.py: the script reads a Makefile, drops the *)
(* path-metacharacter check block and the 'cowardly refusing to build'     *)
(* lines, quotes the code of `python -c` invocations, and writes the       *)
(* result to Makefile.ci.                                                  *)
(*                                                                         *)
(* A text is a sequence of characters (one-character strings); a file is a *)
(* sequence of lines as readlines() returns them: each line ends with its  *)
(* line feed, except possibly the last.                                    *)
(***************************************************************************)
EXTENDS Integers, Sequences, FiniteSets

(***************************************************************************)
(* Text literals of the script.                                            *)
(***************************************************************************)
LF == "\n"
TAB == "\t"
CR == "\r"
FF == "\f"
BACKSLASH == "\\"
DQUOTE == "\""
SQUOTE == "'"
\* Control characters that have no escape in a TLA+ string.
BEL == "<BEL>"
BS == "<BS>"
VT == "<VT>"
\* chr(0o111): the modelled texts have no digit but 1, and \111 is the one
\* octal escape it can form.  They have no '<' either.
CHR_0o111 == "I"

\* 'METACHARACTERS' (line 18)
METACHARACTERS == <<"M","E","T","A","C","H","A","R","A","C","T","E","R","S">>
\* 'endif' (line 22)
ENDIF == <<"e","n","d","i","f">>
\* 'cowardly refusing to build' (line 26)
COWARDLY == <<"c","o","w","a","r","d","l","y"," ","r","e","f","u","s","i","n","g",
              " ","t","o"," ","b","u","i","l","d">>
\* 'python -c ' : the literal prefix of the regular expression (lines 29, 36)
PYTHON_C == <<"p","y","t","h","o","n"," ","-","c"," ">>
\* "Makefile.ci" (line 9) and sys.argv[1] (line 8), as path names
dst_path == "Makefile.ci"
src_path == "argv[1]"
\* The messages printed at lines 5 and 43.
UsageMessage == "Usage: python makefile_ci_patch.py <path_to_official_Makefile>"
WrittenMessage == "Patched Makefile written to Makefile.ci"

(***************************************************************************)
(* String operations of Python, on sequences of characters.                *)
(***************************************************************************)
Min(S) == CHOOSE x \in S : \A y \in S : x <= y
Max(S) == CHOOSE x \in S : \A y \in S : x >= y

\* s[from:] (1-based position `from`)
Tail_(s, from) == SubSeq(s, from, Len(s))

\* s.startswith(prefix)
StartsWith(s, prefix) ==
    /\ Len(prefix) <= Len(s)
    /\ SubSeq(s, 1, Len(prefix)) = prefix

\* The positions p (1-based) at which sub occurs in s.
Occurrences(s, sub) ==
    {p \in 1..(Len(s) - Len(sub) + 1) : SubSeq(s, p, p + Len(sub) - 1) = sub}

\* sub in s
Contains(s, sub) == Occurrences(s, sub) # {}

\* The other characters for which str.isspace holds, each written as its code
\* point: the separators U+001C-U+001F, NEL, the no-break space, and the
\* Unicode spaces and line and paragraph separators.
NBSP == "<U+00A0>"
UnicodeSpaces ==
    {"<U+001C>", "<U+001D>", "<U+001E>", "<U+001F>", "<U+0085>", NBSP,
     "<U+1680>", "<U+2000>", "<U+2001>", "<U+2002>", "<U+2003>", "<U+2004>",
     "<U+2005>", "<U+2006>", "<U+2007>", "<U+2008>", "<U+2009>", "<U+200A>",
     "<U+2028>", "<U+2029>", "<U+202F>", "<U+205F>", "<U+3000>"}

\* str.isspace for one character: U+0009-U+000D, the space, and the above
IsSpace(c) == c \in {" ", TAB, LF, VT, FF, CR} \cup UnicodeSpaces

\* s.strip()
Strip(s) ==
    LET keep == {p \in 1..Len(s) : ~IsSpace(s[p])}
    IN  IF keep = {} THEN <<>> ELSE SubSeq(s, Min(keep), Max(keep))

(***************************************************************************)
(* The regular expression of lines 29 and 36: the literal 'python -c ', one *)
(* character of a negated class, then any run of characters other than the *)
(* line feed.  The class is written as a double quote, a backslash and a   *)
(* line break: the backslash escapes the line break, so the class excludes *)
(* the double quote and the line feed, and nothing else (not the single    *)
(* quote, not the backslash).  At line 29 the class and the run are        *)
(* group 1.                                                                *)
(***************************************************************************)
\* The positions where the pattern matches: 'python -c ' followed by a
\* character that is neither a double quote nor a line feed.
PycMatchStarts(line) ==
    {p \in Occurrences(line, PYTHON_C) :
        /\ p + Len(PYTHON_C) <= Len(line)
        /\ line[p + Len(PYTHON_C)] \notin {DQUOTE, LF}}

\* re.search(...) finds a match
PycMatches(line) == PycMatchStarts(line) # {}

\* m.start(): the leftmost match
PycStart(line) == Min(PycMatchStarts(line))

\* m.end() + 1: the run is greedy and goes on to the next line feed or the end
PycEnd(line) ==
    LET from == PycStart(line) + Len(PYTHON_C) + 1
        lfs == {q \in from..Len(line) : line[q] = LF}
    IN  IF lfs = {} THEN Len(line) + 1 ELSE Min(lfs)

\* pyc_match.group(1)
PycGroup1(line) == SubSeq(line, PycStart(line) + Len(PYTHON_C), PycEnd(line) - 1)

(***************************************************************************)
(* re.sub's expansion of the replacement template (line 36): `quoted` is   *)
(* passed as the template, so the backslash escapes in it are processed.   *)
(* The pattern of line 36 has no group.  The result is                     *)
(* [ok |-> TRUE, text |-> t], or [ok |-> FALSE, ...] when re.error is      *)
(* raised.                                                                 *)
(***************************************************************************)
AsciiLetters ==
    {"a","b","c","d","e","f","g","h","i","j","k","l","m","n","o","p","q","r","s",
     "t","u","v","w","x","y","z","A","B","C","D","E","F","G","H","I","J","K","L",
     "M","N","O","P","Q","R","S","T","U","V","W","X","Y","Z"}

\* ESCAPES of the template parser: \a \b \f \n \r \t \v \\
TemplateEscape(c) ==
    CASE c = "n" -> LF
      [] c = "t" -> TAB
      [] c = "r" -> CR
      [] c = "f" -> FF
      [] c = "a" -> BEL
      [] c = "b" -> BS
      [] c = "v" -> VT
      [] c = BACKSLASH -> BACKSLASH

TemplateError == [ok |-> FALSE, text |-> <<>>]

RECURSIVE ExpandTemplate(_)
ExpandTemplate(t) ==
    IF t = <<>> THEN [ok |-> TRUE, text |-> <<>>]
    ELSE IF t[1] # BACKSLASH THEN
        LET rest == ExpandTemplate(Tail(t))
        IN  IF rest.ok THEN [ok |-> TRUE, text |-> <<t[1]>> \o rest.text]
            ELSE TemplateError
    ELSE IF Len(t) = 1 THEN TemplateError        \* bad escape (end of pattern)
    ELSE
        LET c == t[2] IN
        IF c \in {"n", "t", "r", "f", "a", "b", "v", BACKSLASH} THEN
            LET rest == ExpandTemplate(Tail_(t, 3))
            IN  IF rest.ok
                THEN [ok |-> TRUE, text |-> <<TemplateEscape(c)>> \o rest.text]
                ELSE TemplateError
        ELSE IF c = "1" THEN
            \* \111 is an octal escape; any other \1... refers to group 1 or
            \* 11, which the pattern does not have: invalid group reference
            IF Len(t) >= 4 /\ t[3] = "1" /\ t[4] = "1" THEN
                LET rest == ExpandTemplate(Tail_(t, 5))
                IN  IF rest.ok THEN [ok |-> TRUE, text |-> <<CHR_0o111>> \o rest.text]
                    ELSE TemplateError
            ELSE TemplateError
        ELSE IF c \in AsciiLetters THEN
            \* 'g' not followed by '<': missing <; another letter: bad escape
            TemplateError
        ELSE
            \* any other character: the backslash and the character are kept
            LET rest == ExpandTemplate(Tail_(t, 3))
            IN  IF rest.ok THEN [ok |-> TRUE, text |-> <<BACKSLASH, c>> \o rest.text]
                ELSE TemplateError

\* f'python -c "{code}"' (line 35)
Quoted(code) == PYTHON_C \o <<DQUOTE>> \o code \o <<DQUOTE>>

\* re.sub(pattern, quoted, line) (line 36): the leftmost match runs to the end
\* of the line's text, so it is the only one; it is replaced by the expanded
\* template.
PycSub(line, quoted) ==
    LET repl == ExpandTemplate(quoted)
    IN  IF repl.ok
        THEN [ok |-> TRUE,
              text |-> SubSeq(line, 1, PycStart(line) - 1) \o repl.text
                       \o Tail_(line, PycEnd(line))]
        ELSE TemplateError

\* Lines 29-37: the line after the python -c quoting fix, or the re.error.
FixQuoting(line) ==
    IF ~PycMatches(line) THEN [ok |-> TRUE, text |-> line]
    ELSE LET code == Strip(PycGroup1(line)) IN
         IF ~StartsWith(code, <<DQUOTE>>) /\ ~StartsWith(code, <<SQUOTE>>)
         THEN PycSub(line, Quoted(code))
         ELSE [ok |-> TRUE, text |-> line]

\* A slip: line.startswith('METACHARACTERS') for the test of line 18.
IsGuardStart_AtLineStart(line) == StartsWith(line, METACHARACTERS)

\* 'METACHARACTERS' in line (line 18)
IsGuardStart(line) == Contains(line, METACHARACTERS)

\* line.strip().startswith('endif') (line 22)
IsGuardEnd(line) == StartsWith(Strip(line), ENDIF)

\* 'cowardly refusing to build' in line (line 26)
IsErrorLine(line) == Contains(line, COWARDLY)

\* A slip: the `continue` of line 24 under an else, so that the terminator
\* line falls through to the rest of the loop body.
ScanLine_TerminatorFallsThrough(inside, line) ==
    IF IsGuardStart(line)
    THEN [inside |-> TRUE, emit |-> FALSE, text |-> <<>>, raised |-> FALSE]
    ELSE IF inside /\ ~IsGuardEnd(line)
    THEN [inside |-> TRUE, emit |-> FALSE, text |-> <<>>, raised |-> FALSE]
    ELSE IF IsErrorLine(line)
    THEN [inside |-> FALSE, emit |-> FALSE, text |-> <<>>, raised |-> FALSE]
    ELSE LET fixed == FixQuoting(line) IN
         IF fixed.ok
         THEN [inside |-> FALSE, emit |-> TRUE, text |-> fixed.text, raised |-> FALSE]
         ELSE [inside |-> FALSE, emit |-> FALSE, text |-> <<>>, raised |-> TRUE]

\* A slip: the `continue` of line 27 missing, so that the error lines are
\* handled as any other line.
ScanLine_KeepsErrorLines(inside, line) ==
    IF IsGuardStart(line)
    THEN [inside |-> TRUE, emit |-> FALSE, text |-> <<>>, raised |-> FALSE]
    ELSE IF inside
    THEN [inside |-> ~IsGuardEnd(line), emit |-> FALSE, text |-> <<>>, raised |-> FALSE]
    ELSE LET fixed == FixQuoting(line) IN
         IF fixed.ok
         THEN [inside |-> FALSE, emit |-> TRUE, text |-> fixed.text, raised |-> FALSE]
         ELSE [inside |-> FALSE, emit |-> FALSE, text |-> <<>>, raised |-> TRUE]

\* A slip: the tests of lines 18 and 21 in the other order, so that inside a
\* block a line that starts with 'endif' ends it even if it holds the marker.
ScanLine_TerminatorTestFirst(inside, line) ==
    IF inside
    THEN [inside |-> ~IsGuardEnd(line), emit |-> FALSE, text |-> <<>>, raised |-> FALSE]
    ELSE IF IsGuardStart(line)
    THEN [inside |-> TRUE, emit |-> FALSE, text |-> <<>>, raised |-> FALSE]
    ELSE IF IsErrorLine(line)
    THEN [inside |-> FALSE, emit |-> FALSE, text |-> <<>>, raised |-> FALSE]
    ELSE LET fixed == FixQuoting(line) IN
         IF fixed.ok
         THEN [inside |-> FALSE, emit |-> TRUE, text |-> fixed.text, raised |-> FALSE]
         ELSE [inside |-> FALSE, emit |-> FALSE, text |-> <<>>, raised |-> TRUE]

(***************************************************************************)
(* One iteration of the loop of lines 16-38 on `line` with the flag        *)
(* inside_path_check = inside: the flag after it, whether the line is      *)
(* appended to output_lines, the text appended, and whether re.error was   *)
(* raised.                                                                 *)
(***************************************************************************)
ScanLine(inside, line) ==
    IF IsGuardStart(line)
    THEN [inside |-> TRUE, emit |-> FALSE, text |-> <<>>, raised |-> FALSE]
    ELSE IF inside
    THEN [inside |-> ~IsGuardEnd(line), emit |-> FALSE, text |-> <<>>, raised |-> FALSE]
    ELSE IF IsErrorLine(line)
    THEN [inside |-> FALSE, emit |-> FALSE, text |-> <<>>, raised |-> FALSE]
    ELSE LET fixed == FixQuoting(line) IN
         IF fixed.ok
         THEN [inside |-> FALSE, emit |-> TRUE, text |-> fixed.text, raised |-> FALSE]
         ELSE [inside |-> FALSE, emit |-> FALSE, text |-> <<>>, raised |-> TRUE]

RECURSIVE ScanFrom(_, _, _)
ScanFrom(ls, inside, out) ==
    IF ls = <<>> THEN [ok |-> TRUE, out |-> out]
    ELSE LET r == ScanLine(inside, Head(ls)) IN
         IF r.raised THEN [ok |-> FALSE, out |-> out]
         ELSE ScanFrom(Tail(ls), r.inside, IF r.emit THEN Append(out, r.text) ELSE out)

\* Lines 14-38 as a whole: output_lines after the loop over ls, and whether
\* the loop came to its end (ok) or re.error ended it.
ScanAll(ls) == ScanFrom(ls, FALSE, <<>>)

(***************************************************************************)
(* Files.                                                                  *)
(***************************************************************************)
RECURSIVE Concat(_)
\* f.writelines(output_lines) / the text of a file made of these lines
Concat(ls) == IF ls = <<>> THEN <<>> ELSE Head(ls) \o Concat(Tail(ls))

RECURSIVE ReadLines(_)
\* f.readlines(): the text cut after each line feed, and nowhere else (not
\* at the Unicode line separators).  The modelled texts hold no carriage
\* return for the text mode to translate.
ReadLines(text) ==
    IF text = <<>> THEN <<>>
    ELSE LET lfs == {q \in 1..Len(text) : text[q] = LF}
         IN  IF lfs = {} THEN <<text>>
             ELSE <<SubSeq(text, 1, Min(lfs))>> \o ReadLines(Tail_(text, Min(lfs) + 1))

\* A file of the file system: whether it exists, and its text.
Missing == [exists |-> FALSE, text |-> <<>>]
FileOf(text) == [exists |-> TRUE, text |-> text]

\* A slip: mode "a" for the "w" of line 40.
OpenForWrite_Append(file) == IF file.exists THEN file ELSE FileOf(<<>>)

\* open(dst_path, "w") (line 40): the file is created, or truncated
OpenForWrite(file) == FileOf(<<>>)

\* f.writelines(output_lines) (line 41)
WriteLinesTo(file, ls) == FileOf(file.text \o Concat(ls))

(***************************************************************************)
(* The inputs.                                                             *)
(***************************************************************************)
\* The most lines of a file put together from StructureLines.
MaxLines == 3
\* The most fragments of a line put together from Fragments.
MaxFrags == 3
\* The most runs of the script, one after the other, on the same input.
MaxRuns == 2

LINE_IFNEQ == <<"i","f","n","e","q"," ","(",".",".",".",")",LF>>
LINE_ERROR_META ==
    <<" "," ","$","(","e","r","r","o","r"," ">> \o METACHARACTERS
        \o <<" ","f","o","u","n","d",")",LF>>
LINE_ENDIF == ENDIF \o <<LF>>
LINE_ENDIF_META == <<" "," ">> \o ENDIF \o <<" ","#"," ">> \o METACHARACTERS \o <<LF>>
LINE_COWARDLY == <<TAB,"@","e","c","h","o"," ">> \o COWARDLY \o <<LF>>
LINE_RUN_PYC ==
    <<"r","u","n",":"," ">> \o PYTHON_C \o <<"p","r","i","n","t","(","1",")",LF>>
\* python -c "print('python -c x')"
LINE_NESTED_PYC ==
    PYTHON_C \o <<DQUOTE,"p","r","i","n","t","(",SQUOTE>> \o PYTHON_C
        \o <<"x",SQUOTE,")",DQUOTE,LF>>
\* python -c 'x'; python -c x      (no line feed: the last line of a file)
LINE_TWO_PYC ==
    PYTHON_C \o <<SQUOTE,"x",SQUOTE,";"," ">> \o PYTHON_C \o <<"x">>
\* # endif      (holds the keyword, and does not start with it)
LINE_HASH_ENDIF == <<"#"," ">> \o ENDIF \o <<LF>>
\* python -c print('\d')      (re.sub raises re.error: bad escape \d)
LINE_BAD_ESCAPE ==
    PYTHON_C \o <<"p","r","i","n","t","(",SQUOTE,BACKSLASH,"d",SQUOTE,")",LF>>
\* 'endif' after a no-break space, which strip() removes
LINE_NBSP_ENDIF == <<NBSP>> \o ENDIF \o <<LF>>
\* What Makefile.ci may hold before the first run.
LINE_OLD == <<"o","l","d",LF>>

\* The lines of the files of several lines.
StructureLines ==
    {LINE_IFNEQ, LINE_ERROR_META, LINE_ENDIF, LINE_ENDIF_META, LINE_COWARDLY,
     LINE_RUN_PYC, LINE_HASH_ENDIF, LINE_BAD_ESCAPE, LINE_NBSP_ENDIF}

\* The pieces of the lines of the one-line files.
Fragments ==
    {METACHARACTERS, ENDIF, COWARDLY, PYTHON_C, <<" ">>, <<DQUOTE>>, <<SQUOTE>>,
     <<BACKSLASH>>, <<"n">>}

\* The sequences over S of length at most n.
SeqsUpTo(S, n) == UNION {[1..k -> S] : k \in 0..n}

FragmentLines == {Concat(fs) \o <<LF>> : fs \in SeqsUpTo(Fragments, MaxFrags)}

InputFiles ==
    SeqsUpTo(StructureLines, MaxLines)
        \cup {<<l>> : l \in FragmentLines \cup {LINE_NESTED_PYC, LINE_TWO_PYC}}

(***************************************************************************)
(* The state: the command line and the file system, the script's variables *)
(* and where it stands, and what it printed.                               *)
(***************************************************************************)
VARIABLES
    argc,               \* len(sys.argv) - 1
    srcFile,            \* the file at sys.argv[1]
    dstFile,            \* the file Makefile.ci
    pc,                 \* "start", "scan", "writelines", "print", "exit"
    lines,              \* line 12
    i,                  \* the lines the loop of line 16 has taken
    inside_path_check,  \* line 15
    output_lines,       \* line 14
    origin,             \* history: for each output line, its place in lines
    opened,             \* the open() calls of this run: <<path, mode>>
    stdout,             \* what this run printed
    raised,             \* the exception that ended this run, "" if none
    exit_code,          \* the exit status, -1 while the script runs
    run,                \* which run of the script this is
    dst_at_start,       \* history: Makefile.ci when this run started
    written             \* history: Makefile.ci after each successful run

vars == <<argc, srcFile, dstFile, pc, lines, i, inside_path_check, output_lines,
          origin, opened, stdout, raised, exit_code, run, dst_at_start, written>>

locals == <<lines, i, inside_path_check, output_lines, origin>>

Init ==
    /\ argc \in 0..2
    /\ srcFile \in {Missing} \cup {FileOf(Concat(f)) : f \in InputFiles}
    /\ dstFile \in {Missing, FileOf(LINE_OLD)}
    /\ pc = "start"
    /\ lines = <<>>
    /\ i = 0
    /\ inside_path_check = FALSE
    /\ output_lines = <<>>
    /\ origin = <<>>
    /\ opened = <<>>
    /\ stdout = <<>>
    /\ raised = ""
    /\ exit_code = -1
    /\ run = 1
    /\ dst_at_start = dstFile
    /\ written = <<>>

\* A slip: the sys.exit(1) of line 6 missing.  The usage message is printed
\* and the script goes on: sys.argv[1] raises IndexError when there is no
\* argument, and otherwise the first argument is read as the input.
UsageError_NoExit ==
    /\ pc = "start"
    /\ argc # 1
    /\ stdout' = Append(stdout, UsageMessage)
    /\ IF argc = 0 \/ ~srcFile.exists
       THEN /\ raised' = IF argc = 0 THEN "IndexError" ELSE "OSError"
            /\ exit_code' = 1
            /\ pc' = "exit"
            /\ UNCHANGED <<locals, opened>>
       ELSE /\ opened' = Append(opened, <<src_path, "r">>)
            /\ lines' = ReadLines(srcFile.text)
            /\ output_lines' = <<>>
            /\ origin' = <<>>
            /\ inside_path_check' = FALSE
            /\ i' = 0
            /\ pc' = "scan"
            /\ UNCHANGED <<raised, exit_code>>
    /\ UNCHANGED <<argc, srcFile, dstFile, run, dst_at_start, written>>

\* Lines 4-6: the wrong number of arguments.
UsageError ==
    /\ pc = "start"
    /\ argc # 1
    /\ stdout' = Append(stdout, UsageMessage)
    /\ exit_code' = 1
    /\ pc' = "exit"
    /\ UNCHANGED <<argc, srcFile, dstFile, locals, opened, raised, run,
                   dst_at_start, written>>

\* A slip: Makefile.ci opened for writing before the input is opened.
ReadFails_DstOpenedFirst ==
    /\ pc = "start"
    /\ argc = 1
    /\ ~srcFile.exists
    /\ dstFile' = OpenForWrite(dstFile)
    /\ opened' = Append(opened, <<dst_path, "w">>)
    /\ raised' = "OSError"
    /\ exit_code' = 1
    /\ pc' = "exit"
    /\ UNCHANGED <<argc, srcFile, locals, stdout, run, dst_at_start, written>>

\* Lines 4-12: open(src_path) or the read raises, and nothing catches it.
ReadFails ==
    /\ pc = "start"
    /\ argc = 1
    /\ ~srcFile.exists
    /\ raised' = "OSError"
    /\ exit_code' = 1
    /\ pc' = "exit"
    /\ UNCHANGED <<argc, srcFile, dstFile, locals, opened, stdout, run,
                   dst_at_start, written>>

\* Lines 4-15: the input is read whole, and the scan's variables are set.
ReadInput ==
    /\ pc = "start"
    /\ argc = 1
    /\ srcFile.exists
    /\ opened' = Append(opened, <<src_path, "r">>)
    /\ lines' = ReadLines(srcFile.text)
    /\ output_lines' = <<>>
    /\ origin' = <<>>
    /\ inside_path_check' = FALSE
    /\ i' = 0
    /\ pc' = "scan"
    /\ UNCHANGED <<argc, srcFile, dstFile, stdout, raised, exit_code, run,
                   dst_at_start, written>>

\* A slip: output_lines.insert(0, line) for the append of line 38.
ScanStep_Prepends ==
    /\ pc = "scan"
    /\ i < Len(lines)
    /\ LET r == ScanLine(inside_path_check, lines[i + 1]) IN
        /\ ~r.raised
        /\ inside_path_check' = r.inside
        /\ output_lines' = IF r.emit THEN <<r.text>> \o output_lines ELSE output_lines
        /\ origin' = IF r.emit THEN <<i + 1>> \o origin ELSE origin
    /\ i' = i + 1
    /\ UNCHANGED <<argc, srcFile, dstFile, pc, lines, opened, stdout, raised,
                   exit_code, run, dst_at_start, written>>

\* Lines 16-38: one iteration of the loop, on lines[i + 1].
ScanStep ==
    /\ pc = "scan"
    /\ i < Len(lines)
    /\ LET r == ScanLine(inside_path_check, lines[i + 1]) IN
        /\ ~r.raised
        /\ inside_path_check' = r.inside
        /\ output_lines' = IF r.emit THEN Append(output_lines, r.text) ELSE output_lines
        /\ origin' = IF r.emit THEN Append(origin, i + 1) ELSE origin
    /\ i' = i + 1
    /\ UNCHANGED <<argc, srcFile, dstFile, pc, lines, opened, stdout, raised,
                   exit_code, run, dst_at_start, written>>

\* Line 36: re.sub raises re.error on the template, which nothing catches.
ScanRaises ==
    /\ pc = "scan"
    /\ i < Len(lines)
    /\ ScanLine(inside_path_check, lines[i + 1]).raised
    /\ raised' = "re.error"
    /\ exit_code' = 1
    /\ pc' = "exit"
    /\ UNCHANGED <<argc, srcFile, dstFile, locals, opened, stdout, run,
                   dst_at_start, written>>

\* Line 40: the loop is over, and Makefile.ci is opened for writing.
OpenDst ==
    /\ pc = "scan"
    /\ i = Len(lines)
    /\ dstFile' = OpenForWrite(dstFile)
    /\ opened' = Append(opened, <<dst_path, "w">>)
    /\ pc' = "writelines"
    /\ UNCHANGED <<argc, srcFile, locals, stdout, raised, exit_code, run,
                   dst_at_start, written>>

\* Line 41, and the close that ends the with block.
WriteLines ==
    /\ pc = "writelines"
    /\ dstFile' = WriteLinesTo(dstFile, output_lines)
    /\ pc' = "print"
    /\ UNCHANGED <<argc, srcFile, locals, opened, stdout, raised, exit_code, run,
                   dst_at_start, written>>

\* Line 43, and the end of the script.
PrintWritten ==
    /\ pc = "print"
    /\ stdout' = Append(stdout, WrittenMessage)
    /\ exit_code' = 0
    /\ pc' = "exit"
    /\ written' = Append(written, dstFile.text)
    /\ UNCHANGED <<argc, srcFile, dstFile, locals, opened, raised, run,
                   dst_at_start>>

\* The script is run again, with the same argument, on the files as they are.
Rerun ==
    /\ pc = "exit"
    /\ exit_code = 0
    /\ run < MaxRuns
    /\ run' = run + 1
    /\ pc' = "start"
    /\ lines' = <<>>
    /\ i' = 0
    /\ inside_path_check' = FALSE
    /\ output_lines' = <<>>
    /\ origin' = <<>>
    /\ opened' = <<>>
    /\ stdout' = <<>>
    /\ raised' = ""
    /\ exit_code' = -1
    /\ dst_at_start' = dstFile
    /\ UNCHANGED <<argc, srcFile, dstFile, written>>

Next ==
    \/ UsageError
    \/ ReadFails
    \/ ReadInput
    \/ ScanStep
    \/ ScanRaises
    \/ OpenDst
    \/ WriteLines
    \/ PrintWritten
    \/ Rerun

Spec == Init /\ [][Next]_vars

(***************************************************************************)
(* The vocabulary of the properties.                                       *)
(***************************************************************************)
Range(f) == {f[x] : x \in DOMAIN f}

\* Line k of the input is in the output.
Emitted(k) == k \in Range(origin)

\* ls without its k-th element
RemoveAt(ls, k) == SubSeq(ls, 1, k - 1) \o SubSeq(ls, k + 1, Len(ls))

\* The lines after line k whose trimmed text starts with 'endif'.
TerminatorsAfter(k) == {e \in (k + 1)..Len(lines) : IsGuardEnd(lines[e])}

\* Those of them that do not hold the marker.
PureTerminatorsAfter(k) ==
    {e \in TerminatorsAfter(k) : ~IsGuardStart(lines[e])}

\* Line k lies in a guard block: from a marker line to the first later
\* terminator that does not itself hold the marker, both included.
InGuardBlock(k) ==
    \E j \in 1..k :
        /\ IsGuardStart(lines[j])
        /\ \A e \in PureTerminatorsAfter(j) : e >= k

\* The scan has come to the end of the input.
ScanFinished == pc \in {"writelines", "print", "exit"} /\ raised = ""

\* The script has ended with success.
Succeeded == pc = "exit" /\ exit_code = 0

(***************************************************************************)
(* C1.  Guard-block removal.                                               *)
(***************************************************************************)
\* The block that the marker line k opens and the first line of `ends`
\* closes is absent from the output; right after that line the flag is false,
\* and the next line is handled as any line outside a block: it is emitted
\* unless it holds the marker or the error phrase.
GuardBlockRemoved(k, ends) ==
    ends # {} =>
        LET e == Min(ends) IN
        /\ \A j \in k..e : ~Emitted(j)
        /\ (i = e => ~inside_path_check)
        /\ (i > e /\ ~IsGuardStart(lines[e + 1]) /\ ~IsErrorLine(lines[e + 1])
                => Emitted(e + 1))

\* C1 as claimed: for every scanned line L that holds 'METACHARACTERS', L and
\* the lines up to and including the first later line whose trimmed text
\* starts with 'endif' are absent from the output, and the scan is outside the
\* guard block again right after that line.
C1_GuardBlockFirstTerminator ==
    \A k \in 1..i :
        IsGuardStart(lines[k]) => GuardBlockRemoved(k, TerminatorsAfter(k))

\* C1 amended: the same, the block ending at the first later line whose
\* trimmed text starts with 'endif' and which does not itself hold the marker
\* (a line with both keeps the scan inside the block).
C1_GuardBlockPureTerminator ==
    \A k \in 1..i :
        IsGuardStart(lines[k]) => GuardBlockRemoved(k, PureTerminatorsAfter(k))

\* A run that ended well on an input with a marker line, its terminator, and
\* a line after it that is in the output.
C1_Witness ==
    /\ Succeeded
    /\ \E k \in 1..Len(lines) :
        /\ IsGuardStart(lines[k])
        /\ PureTerminatorsAfter(k) # {}
        /\ LET e == Min(PureTerminatorsAfter(k)) IN
            /\ e < Len(lines)
            /\ Emitted(e + 1)

(***************************************************************************)
(* C2.  The guard example: ifneq (...) / $(error METACHARACTERS found) /   *)
(* endif.                                                                  *)
(***************************************************************************)
GuardExample == <<LINE_IFNEQ, LINE_ERROR_META, LINE_ENDIF>>

RunOnGuardExample ==
    /\ argc = 1
    /\ srcFile = FileOf(Concat(GuardExample))
    /\ pc = "exit"

\* C2 as claimed: on the guard example, none of the three lines is in
\* Makefile.ci.
C2_ExampleAllThreeRemoved ==
    RunOnGuardExample =>
        /\ Succeeded
        /\ \A l \in Range(GuardExample) : ~Contains(dstFile.text, l)

\* C2 amended: on the guard example, the marker line and the 'endif' line are
\* removed, and the 'ifneq (...)' line, which comes before the marker, is
\* kept: Makefile.ci holds that line and nothing else.
C2_ExampleKeepsIfneq ==
    RunOnGuardExample =>
        /\ Succeeded
        /\ dstFile = FileOf(LINE_IFNEQ)

\* The run on the guard example has ended, and Makefile.ci holds a line.
C2_Witness ==
    /\ RunOnGuardExample
    /\ dstFile.exists
    /\ Len(ReadLines(dstFile.text)) = 1

(***************************************************************************)
(* C3.  Error-line removal.                                                *)
(***************************************************************************)
\* C3: a scanned line that holds 'cowardly refusing to build' and does not
\* lie in a guard block (the marker line is the first line of its block) is
\* not in the output; and when the scan has finished, output_lines is what
\* the scan of the input without that line gives: no other line is removed or
\* changed on its account.
C3_ErrorLineRemoved ==
    \A k \in 1..i :
        IsErrorLine(lines[k]) /\ ~InGuardBlock(k) =>
            /\ ~Emitted(k)
            /\ (ScanFinished =>
                    ScanAll(RemoveAt(lines, k)) = [ok |-> TRUE, out |-> output_lines])

\* A run that ended well, with an error line outside any guard block between
\* two lines that are in the output.
C3_Witness ==
    /\ Succeeded
    /\ \E k \in 2..(Len(lines) - 1) :
        /\ IsErrorLine(lines[k])
        /\ ~InGuardBlock(k)
        /\ Emitted(k - 1)
        /\ Emitted(k + 1)

(***************************************************************************)
(* C4, C5.  The quoting of python -c invocations.                          *)
(***************************************************************************)
\* The line's text without its line feed, and the line feed if it has one.
Body(line) ==
    IF line # <<>> /\ line[Len(line)] = LF THEN SubSeq(line, 1, Len(line) - 1)
    ELSE line
Ending(line) == Tail_(line, Len(Body(line)) + 1)

\* The line holds a command invocation: 'python -c ' and a code argument, the
\* trimmed rest of the line, which is not empty.  The invocation of a line is
\* its first.
InvocationAt(line) == Min(Occurrences(Body(line), PYTHON_C))
CodeArgument(line) ==
    Strip(Tail_(Body(line), InvocationAt(line) + Len(PYTHON_C)))
HasInvocation(line) ==
    /\ Contains(Body(line), PYTHON_C)
    /\ CodeArgument(line) # <<>>
CodeIsQuoted(line) ==
    \/ StartsWith(CodeArgument(line), <<DQUOTE>>)
    \/ StartsWith(CodeArgument(line), <<SQUOTE>>)

\* The line with its code argument in double quotes, and all that comes
\* before the code argument as it was.
WithCodeQuoted(line) ==
    SubSeq(line, 1, InvocationAt(line) + Len(PYTHON_C) - 1)
        \o <<DQUOTE>> \o CodeArgument(line) \o <<DQUOTE>> \o Ending(line)

\* C4 as claimed: a line that survives the two removals and holds an
\* invocation whose code argument does not start with a quote is emitted with
\* that code argument wrapped in double quotes, the rest unchanged.  The scan
\* never stops on such a line, and each such line in the output is that.
C4_CodeWrappedInQuotes ==
    /\ raised # "re.error"
    /\ \A j \in DOMAIN output_lines :
        LET l == lines[origin[j]] IN
        HasInvocation(l) /\ ~CodeIsQuoted(l) => output_lines[j] = WithCodeQuoted(l)

\* C5 as claimed: a surviving line that holds an invocation whose code
\* argument starts with a single or a double quote is emitted as it is.
C5_QuotedCodeUnchanged ==
    \A j \in DOMAIN output_lines :
        LET l == lines[origin[j]] IN
        HasInvocation(l) /\ CodeIsQuoted(l) => output_lines[j] = l

(***************************************************************************)
(* C6.  The usage error.                                                   *)
(***************************************************************************)
\* C6: with no argument, or with two or more, the script opens no file, reads
\* no line, leaves Makefile.ci as it was, and can only end by printing the
\* usage message and exiting with status 1.
C6_UsageErrorWritesNothing ==
    argc # 1 =>
        /\ pc \in {"start", "exit"}
        /\ opened = <<>>
        /\ lines = <<>>
        /\ dstFile = dst_at_start
        /\ raised = ""
        /\ (pc = "exit" => exit_code = 1 /\ stdout = <<UsageMessage>>)

\* The script has ended on two arguments, and the Makefile.ci that was there
\* is still there.
C6_Witness ==
    /\ argc = 2
    /\ pc = "exit"
    /\ srcFile.exists
    /\ dstFile = FileOf(LINE_OLD)

(***************************************************************************)
(* C7.  A read failure leaves no output.                                   *)
(***************************************************************************)
\* C7: when the input cannot be read, the script prints nothing, opens
\* nothing for writing, leaves Makefile.ci as it was (absent, or with its old
\* text), and can only end with the exception and a nonzero status; and in any
\* run, Makefile.ci is opened or changed only once the input has been read
\* whole and the scan has come to its end.
C7_ReadFailureNoOutput ==
    /\ (argc = 1 /\ ~srcFile.exists =>
            /\ pc \in {"start", "exit"}
            /\ stdout = <<>>
            /\ opened = <<>>
            /\ dstFile = dst_at_start
            /\ (pc = "exit" => exit_code = 1 /\ raised = "OSError"))
    /\ (<<dst_path, "w">> \in Range(opened) \/ dstFile # dst_at_start =>
            /\ opened[1] = <<src_path, "r">>
            /\ lines = ReadLines(srcFile.text)
            /\ i = Len(lines)
            /\ ScanFinished)

\* The run on a missing input has ended, and the old Makefile.ci is there.
C7_Witness ==
    /\ argc = 1
    /\ ~srcFile.exists
    /\ pc = "exit"
    /\ dstFile = FileOf(LINE_OLD)

(***************************************************************************)
(* C8.  Order-preserving pass-through.                                     *)
(***************************************************************************)
\* The line is one the quoting fix rewrites.
Rewritten(line) == FixQuoting(line) # [ok |-> TRUE, text |-> line]

\* C8: the output is the scanned input with some lines deleted and some
\* rewritten in place.  Each output line comes from one scanned input line, in
\* the input's order and at most once; it is a line that neither removal
\* drops; it is that line unchanged unless the quoting fix rewrites it.  Each
\* scanned line that no rule drops or rewrites is in the output.  And what a
\* successful run leaves in Makefile.ci is these lines, one after the other.
C8_OrderPreserved ==
    /\ Len(origin) = Len(output_lines)
    /\ \A j \in DOMAIN origin : origin[j] \in 1..i
    /\ \A j \in 1..(Len(origin) - 1) : origin[j] < origin[j + 1]
    /\ \A j \in DOMAIN origin :
        LET l == lines[origin[j]] IN
        /\ ~InGuardBlock(origin[j])
        /\ ~IsErrorLine(l)
        /\ (~Rewritten(l) => output_lines[j] = l)
    /\ \A k \in 1..i :
        ~InGuardBlock(k) /\ ~IsErrorLine(lines[k]) /\ ~Rewritten(lines[k])
            => \E j \in DOMAIN origin : origin[j] = k /\ output_lines[j] = lines[k]
    /\ (Succeeded => dstFile = FileOf(Concat(output_lines)))

\* A run that ended well with a dropped line, then an unchanged line, then a
\* rewritten one.
C8_Witness ==
    /\ Succeeded
    /\ Len(lines) = 3
    /\ origin = <<2, 3>>
    /\ output_lines[1] = lines[2]
    /\ output_lines[2] # lines[3]

(***************************************************************************)
(* C9.  Determinism.                                                       *)
(***************************************************************************)
\* C9: every successful run on the same input leaves the same text in
\* Makefile.ci, whatever Makefile.ci held before the run: the text of a later
\* run is that of the first, and it is the text of the lines the scan of the
\* input gives, which the input alone decides.
C9_Deterministic ==
    /\ \A a \in DOMAIN written : written[a] = written[1]
    /\ (Succeeded =>
            /\ written # <<>>
            /\ dstFile.text = written[1]
            /\ ScanAll(ReadLines(srcFile.text)).ok
            /\ dstFile.text = Concat(ScanAll(ReadLines(srcFile.text)).out))

\* The second run has ended well; the first one had found an old Makefile.ci
\* and left a text that is neither empty nor the input's.
C9_Witness ==
    /\ Succeeded
    /\ run = 2
    /\ Len(written) = 2
    /\ written[1] # <<>>
    /\ written[1] # srcFile.text
    /\ dst_at_start = FileOf(written[1])

(***************************************************************************)
(* C10.  The unterminated guard block.                                     *)
(***************************************************************************)
\* C10: take a marker line that no later line terminates (no later line has
\* a trimmed text that starts with 'endif' and is without the marker).  Once
\* the scan has taken it, the flag is true for the rest of the scan, no line
\* from the marker line to the end of the input is in the output, no exception
\* ends the run, and the run can only end with success, Makefile.ci holding
\* the lines emitted before the marker line.  A run that ends before the scan
\* has taken the marker line was ended by re.error on an earlier line.
C10_UnterminatedBlock ==
    \A k \in 1..Len(lines) :
        IsGuardStart(lines[k]) /\ PureTerminatorsAfter(k) = {} =>
            /\ (i >= k =>
                    /\ inside_path_check
                    /\ \A j \in k..Len(lines) : ~Emitted(j)
                    /\ raised = ""
                    /\ output_lines = ScanAll(SubSeq(lines, 1, k - 1)).out
                    /\ (pc = "exit" =>
                            /\ exit_code = 0
                            /\ stdout = <<WrittenMessage>>
                            /\ dstFile = FileOf(Concat(output_lines))))
            /\ (i < k /\ pc = "exit" =>
                    /\ raised = "re.error"
                    /\ ~ScanAll(SubSeq(lines, 1, k - 1)).ok)

\* A run that ended well on an input with an unterminated marker line, a line
\* after it that starts with 'endif' and holds the marker, and a line before
\* it that is in the output.
C10_Witness ==
    /\ Succeeded
    /\ \E k \in 2..(Len(lines) - 1) :
        /\ IsGuardStart(lines[k])
        /\ PureTerminatorsAfter(k) = {}
        /\ TerminatorsAfter(k) # {}
        /\ output_lines # <<>>

====
